---------------------------- MODULE Spec2Model ----------------------------
(***************************************************************************)
(* Model of package qlog (src/qlog/logger.go): a Logger holding a Context  *)
(* and a zap engine handle, its five severity methods, InfoJSON and the    *)
(* context field extraction logFromContext, run against a process          *)
(* environment (GO_DEBUG, SERVICE_NAME) that may change between calls.     *)
(***************************************************************************)
EXTENDS Naturals, Sequences, FiniteSets, TLC

VARIABLES
    env,        \* process environment: variable name -> [set, v]
    Context,    \* Logger.Context
    Zap,        \* Logger.Zap, the engine handle
    zapCalls,   \* number of records the engine has received
    rawWrites,  \* number of lines println has written to the raw channel
    alive,      \* FALSE once the process has exited (zap Fatal) or crashed
    call        \* the last logging call: inputs, environment read, effects

vars == <<env, Context, Zap, zapCalls, rawWrites, alive, call>>

\* Bound on the number of logging calls of one behaviour.
MaxCalls == 2

(***************************************************************************)
(* Keys and levels.                                                        *)
(***************************************************************************)
KeyXRequestID == "x-request-id"
KeyService == "service"

DebugLevel == "debug"
InfoLevel == "info"
WarnLevel == "warn"
ErrorLevel == "error"
FatalLevel == "fatal"

(***************************************************************************)
(* Process environment.  os.LookupEnv returns (value, ok); ok is TRUE for  *)
(* a variable that is set, also when it is set to the empty string.        *)
(***************************************************************************)
Unset == [set |-> FALSE, v |-> ""]
SetTo(s) == [set |-> TRUE, v |-> s]

GoDebugValues == {Unset, SetTo("1")}
ServiceValues == {Unset, SetTo(""), SetTo("svc")}

LookupEnv(e, name) == e[name]

(***************************************************************************)
(* Contexts.  type is the dynamic type of the interface value, ptr tells   *)
(* whether a pointer of that type is nil, request_id is the entry of the   *)
(* context's key/value store under "request_id".                           *)
(***************************************************************************)
Absent == [type |-> "absent", v |-> ""]
Str(s) == [type |-> "string", v |-> s]
IntVal(n) == [type |-> "int", v |-> n]

StoreEntries == {Absent, Str(""), Str("r1"), IntVal("7")}

Ctx(t, p, r) == [type |-> t, ptr |-> p, request_id |-> r]

ContextSet ==
    {Ctx("nil", "nil", Absent), Ctx("string", "valid", Absent)}
    \cup {Ctx("*gin.Context", "valid", r) : r \in StoreEntries}
    \cup {Ctx("*fasthttp.RequestCtx", "valid", r) : r \in StoreEntries}
    \cup {Ctx("*http.Request", "valid", Absent)}
    \cup {Ctx(t, "nil", Absent) :
            t \in {"*gin.Context", "*http.Request", "*fasthttp.RequestCtx"}}

(***************************************************************************)
(* zap fields.                                                             *)
(***************************************************************************)
NilMap == <<>>

ZapString(k, s) == [Key |-> k, Type |-> "String", String |-> s, Interface |-> NilMap]
ZapAny(k, m) == [Key |-> k, Type |-> "Reflect", String |-> "", Interface |-> m]

\* stg.IsEmpty(&s)
IsEmpty(s) == s = ""

\* gin.Context.GetString: the entry when it is a string, "" otherwise.
GetString(ctx) == IF ctx.request_id.type = "string" THEN ctx.request_id.v ELSE ""

\* fasthttp.RequestCtx.UserValue: the entry, nil when absent.
UserValue(ctx) == ctx.request_id

(***************************************************************************)
(* logFromContext.  The three type assertions are tried one after the      *)
(* other; each rule leaves the accumulated fields alone when the dynamic   *)
(* type is not its own.  A method call through a nil *gin.Context or a nil *)
(* *fasthttp.RequestCtx dereferences the nil pointer and panics; the       *)
(* *http.Request rule calls no method of its value.                        *)
(***************************************************************************)
Extracted(f, t) == [raised |-> FALSE, returned |-> FALSE, fields |-> f, trace |-> t]
Raised(f, t) == [raised |-> TRUE, returned |-> FALSE, fields |-> f, trace |-> t]
Returned(f, t) == [raised |-> FALSE, returned |-> TRUE, fields |-> f, trace |-> t]

\* if service, ok := os.LookupEnv("SERVICE_NAME"); ok { append }
AppendService(e, fields) ==
    LET service == LookupEnv(e, "SERVICE_NAME")
    IN  IF service.set THEN Append(fields, ZapString(KeyService, service.v))
        ELSE fields

\* (variant: the emptiness test on the identifier is left out)
GinRuleAlwaysID(ctx, e, fields) ==
    IF ctx.type # "*gin.Context" THEN Extracted(fields, <<>>)
    ELSE IF ctx.ptr = "nil" THEN Raised(fields, <<"GetString">>)
    ELSE Extracted(AppendService(e, Append(fields, ZapString(KeyXRequestID, GetString(ctx)))),
                   <<"GetString", "LookupEnv SERVICE_NAME">>)

GinRule(ctx, e, fields) ==
    IF ctx.type # "*gin.Context" THEN Extracted(fields, <<>>)
    ELSE IF ctx.ptr = "nil" THEN Raised(fields, <<"GetString">>)
    ELSE LET uuid == GetString(ctx)
             f1 == IF ~IsEmpty(uuid)
                   THEN Append(fields, ZapString(KeyXRequestID, uuid))
                   ELSE fields
         IN  Extracted(AppendService(e, f1), <<"GetString", "LookupEnv SERVICE_NAME">>)

\* (variant: the request rule also fires for a gin context, which holds a request)
HttpRuleAlsoGin(ctx, e, fields) ==
    IF ctx.type \notin {"*http.Request", "*gin.Context"} THEN Extracted(fields, <<>>)
    ELSE Extracted(AppendService(e, fields), <<"LookupEnv SERVICE_NAME">>)

HttpRule(ctx, e, fields) ==
    IF ctx.type # "*http.Request" THEN Extracted(fields, <<>>)
    ELSE Extracted(AppendService(e, fields), <<"LookupEnv SERVICE_NAME">>)

\* (variant: the early return drops the fields of its branch)
FastHTTPRuleDiscard(ctx, e, fields) ==
    IF ctx.type # "*fasthttp.RequestCtx" THEN Extracted(fields, <<>>)
    ELSE IF ctx.ptr = "nil" THEN Raised(fields, <<"UserValue">>)
    ELSE Returned(<<>>, <<"UserValue", "LookupEnv SERVICE_NAME">>)

FastHTTPRule(ctx, e, fields) ==
    IF ctx.type # "*fasthttp.RequestCtx" THEN Extracted(fields, <<>>)
    ELSE IF ctx.ptr = "nil" THEN Raised(fields, <<"UserValue">>)
    ELSE LET uuid == UserValue(ctx)
             f1 == IF uuid.type = "string"
                   THEN Append(fields, ZapString(KeyXRequestID, uuid.v))
                   ELSE fields
         IN  Returned(AppendService(e, f1), <<"UserValue", "LookupEnv SERVICE_NAME">>)

logFromContext(ctx, e) ==
    LET r1 == GinRule(ctx, e, <<>>)
        r2 == HttpRule(ctx, e, r1.fields)
        r3 == FastHTTPRule(ctx, e, r2.fields)
        t  == <<"logFromContext">>
    IN  IF r1.raised THEN Raised(<<>>, t \o r1.trace)
        ELSE IF r3.raised THEN Raised(<<>>, t \o r1.trace \o r2.trace \o r3.trace)
        ELSE IF r3.returned THEN Returned(r3.fields, t \o r1.trace \o r2.trace \o r3.trace)
        ELSE Extracted(r3.fields, t \o r1.trace \o r2.trace)

(***************************************************************************)
(* fmt.Sprintf.  A format is a sequence of tokens: a verb (%d, %s), the    *)
(* escaped percent sign %%, or literal text.  An operand is [type, v].     *)
(***************************************************************************)
Verbs == {"%d", "%s"}
VerbChar(verb) == IF verb = "%d" THEN "d" ELSE "s"
VerbType(verb) == IF verb = "%d" THEN "int" ELSE "string"

RECURSIVE Concat(_)
\* the Go string a token sequence stands for
Concat(tokens) ==
    IF tokens = <<>> THEN "" ELSE Head(tokens) \o Concat(Tail(tokens))

\* one operand under one verb; a wrong type prints %!verb(type=value)
FormatVerb(verb, a) ==
    IF a.type = VerbType(verb) THEN a.v
    ELSE "%!" \o VerbChar(verb) \o "(" \o a.type \o "=" \o a.v \o ")"

RECURSIVE ExtraArgs(_, _)
ExtraArgs(a, argNum) ==
    a[argNum].type \o "=" \o a[argNum].v
      \o (IF argNum < Len(a) THEN ", " \o ExtraArgs(a, argNum + 1) ELSE "")

RECURSIVE doPrintf(_, _, _)
doPrintf(format, a, argNum) ==
    IF format = <<>>
    THEN IF argNum <= Len(a) THEN "%!(EXTRA " \o ExtraArgs(a, argNum) \o ")" ELSE ""
    ELSE LET t == Head(format)
             rest == Tail(format)
         IN  IF t = "%%" THEN "%" \o doPrintf(rest, a, argNum)
             ELSE IF t \in Verbs
             THEN IF argNum > Len(a)
                  THEN "%!" \o VerbChar(t) \o "(MISSING)" \o doPrintf(rest, a, argNum)
                  ELSE FormatVerb(t, a[argNum]) \o doPrintf(rest, a, argNum + 1)
             ELSE t \o doPrintf(rest, a, argNum)

Sprintf(format, a) == doPrintf(format, a, 1)

(***************************************************************************)
(* encoding/json.Valid over a tokenised fragment.                          *)
(***************************************************************************)
JSONStrings == {"\"id\"", "\"a\""}
JSONNumbers == {"1"}
JSONLiterals == {"true", "false", "null"}
JSONScalars == JSONStrings \cup JSONNumbers \cup JSONLiterals

RECURSIVE ParseValue(_, _)
RECURSIVE ParseElements(_, _)
RECURSIVE ParseMembers(_, _)
\* each returns the index after what it parsed, 0 on a syntax error
ParseValue(s, i) ==
    IF i > Len(s) THEN 0
    ELSE IF s[i] \in JSONScalars THEN i + 1
    ELSE IF s[i] = "["
    THEN IF i + 1 <= Len(s) /\ s[i + 1] = "]" THEN i + 2 ELSE ParseElements(s, i + 1)
    ELSE IF s[i] = "{"
    THEN IF i + 1 <= Len(s) /\ s[i + 1] = "}" THEN i + 2 ELSE ParseMembers(s, i + 1)
    ELSE 0

ParseElements(s, i) ==
    LET j == ParseValue(s, i)
    IN  IF j = 0 \/ j > Len(s) THEN 0
        ELSE IF s[j] = "]" THEN j + 1
        ELSE IF s[j] = "," THEN ParseElements(s, j + 1)
        ELSE 0

ParseMembers(s, i) ==
    IF i + 1 > Len(s) THEN 0
    ELSE IF s[i] \notin JSONStrings \/ s[i + 1] # ":" THEN 0
    ELSE LET j == ParseValue(s, i + 2)
         IN  IF j = 0 \/ j > Len(s) THEN 0
             ELSE IF s[j] = "}" THEN j + 1
             ELSE IF s[j] = "," THEN ParseMembers(s, j + 1)
             ELSE 0

JSONValid(jbs) == ParseValue(jbs, 1) = Len(jbs) + 1

(***************************************************************************)
(* Inputs of the logging calls.                                            *)
(***************************************************************************)
MsgSet == {<<"order">>, <<"value ", "%d", "%%">>}
ArgsSet == {<<>>, <<IntVal("7")>>, <<Str("x")>>}
JbsSet == {<<"{", "\"id\"", ":", "1", "}">>, <<"{", "bad">>, <<>>}

\* LoggerExtras
Extras(k, v, f) == [Key |-> k, Value |-> v, Filter |-> f]
NoExtras == Extras("", NilMap, <<>>)
ExtrasSet ==
    {Extras("meta", <<<<"a", "1">>>>, <<>>),
     Extras("meta", <<<<"a", "1">>>>, <<"a">>),
     Extras("", <<<<"a", "1">>>>, <<>>),
     Extras("meta", NilMap, <<"a">>)}

(***************************************************************************)
(* The effects of one call: the steps it took, the lines it wrote to the   *)
(* raw channel, the records it handed to the engine and how it ended       *)
(* ("returned", "panic", or "exit" after the engine's Fatal).              *)
(***************************************************************************)
Effects(t, w, z, r) == [trace |-> t, written |-> w, emitted |-> z, result |-> r]
Entry(level, m, fields) == [level |-> level, msg |-> m, fields |-> fields]

\* (variant: the toggle, once seen set by a call, is remembered)
ShouldBypassSticky(e) == LookupEnv(e, "GO_DEBUG").set \/ call.goDebug.set

\* if _, ok := os.LookupEnv("GO_DEBUG"); ok
ShouldBypass(e) == LookupEnv(e, "GO_DEBUG").set

\* (variant: the bypass path prints the message without formatting it)
LogBypassVerbatim(level, msg, keysAndValues, ctx, e) ==
    IF ShouldBypass(e)
    THEN Effects(<<"LookupEnv GO_DEBUG", "println">>, <<Concat(msg)>>, <<>>, "returned")
    ELSE LET nrfs == logFromContext(ctx, e)
             m == IF Len(keysAndValues) > 0 THEN Sprintf(msg, keysAndValues)
                  ELSE Concat(msg)
         IN  IF nrfs.raised
             THEN Effects(<<"LookupEnv GO_DEBUG">> \o nrfs.trace, <<>>, <<>>, "panic")
             ELSE Effects(<<"LookupEnv GO_DEBUG">> \o nrfs.trace \o <<"Zap">>, <<>>,
                          <<Entry(level, m, nrfs.fields)>>,
                          IF level = FatalLevel THEN "exit" ELSE "returned")

\* The body shared by Fatal, Error, Warn, Info and Debug.
Log(level, msg, keysAndValues, ctx, e) ==
    IF ShouldBypass(e)
    THEN Effects(<<"LookupEnv GO_DEBUG", "println">>,
                 <<Sprintf(msg, keysAndValues)>>, <<>>, "returned")
    ELSE LET nrfs == logFromContext(ctx, e)
             m == IF Len(keysAndValues) > 0 THEN Sprintf(msg, keysAndValues)
                  ELSE Concat(msg)
         IN  IF nrfs.raised
             THEN Effects(<<"LookupEnv GO_DEBUG">> \o nrfs.trace, <<>>, <<>>, "panic")
             ELSE Effects(<<"LookupEnv GO_DEBUG">> \o nrfs.trace \o <<"Zap">>, <<>>,
                          <<Entry(level, m, nrfs.fields)>>,
                          IF level = FatalLevel THEN "exit" ELSE "returned")

\* if !stg.IsEmpty(&keys.Key) && len(keys.Value) > 0 { append zap.Any }
AppendExtras(nrfs, keys) ==
    IF ~IsEmpty(keys.Key) /\ Len(keys.Value) > 0
    THEN Append(nrfs, ZapAny(keys.Key, keys.Value))
    ELSE nrfs

\* The body of InfoJSON: logFromContext runs before the GO_DEBUG test.
InfoJSONBody(msg, jbs, keys, ctx, e) ==
    LET nrfs == logFromContext(ctx, e)
    IN  IF nrfs.raised THEN Effects(nrfs.trace, <<>>, <<>>, "panic")
        ELSE IF ShouldBypass(e)
        THEN Effects(nrfs.trace \o <<"LookupEnv GO_DEBUG", "println">>,
                     <<Concat(msg)>>, <<>>, "returned")
        ELSE IF ~JSONValid(jbs)
        THEN Effects(nrfs.trace \o <<"LookupEnv GO_DEBUG", "json.Valid", "Zap">>, <<>>,
                     <<Entry(InfoLevel, Concat(msg), nrfs.fields)>>, "returned")
        ELSE Effects(nrfs.trace \o <<"LookupEnv GO_DEBUG", "json.Valid", "Zap">>, <<>>,
                     <<Entry(InfoLevel, Concat(msg) \o " " \o Concat(jbs),
                             AppendExtras(nrfs.fields, keys))>>, "returned")

(***************************************************************************)
(* State machine.                                                          *)
(***************************************************************************)
NoCall ==
    [method |-> "none", msg |-> <<>>, args |-> <<>>, jbs |-> <<>>, keys |-> NoExtras,
     goDebug |-> Unset, service |-> Unset,
     trace |-> <<>>, written |-> <<>>, emitted |-> <<>>, result |-> "none"]

\* NewProduction(context), in any process environment
Init ==
    /\ env \in {[GO_DEBUG |-> g, SERVICE_NAME |-> s] :
                    g \in GoDebugValues, s \in ServiceValues}
    /\ Context \in ContextSet
    /\ Zap = "zap"
    /\ zapCalls = 0
    /\ rawWrites = 0
    /\ alive = TRUE
    /\ call = NoCall

\* One logging call, run to completion: its effects reach the raw channel
\* and the engine; the engine's Fatal exits the process, a panic unwinds
\* into the caller, which recovers or lets the process crash.
Complete(method, msg, args, jbs, keys, fx) ==
    /\ alive
    /\ zapCalls + rawWrites < MaxCalls
    /\ call' = [method |-> method, msg |-> msg, args |-> args, jbs |-> jbs, keys |-> keys,
                goDebug |-> env["GO_DEBUG"], service |-> env["SERVICE_NAME"],
                trace |-> fx.trace, written |-> fx.written, emitted |-> fx.emitted,
                result |-> fx.result]
    /\ zapCalls' = zapCalls + Len(fx.emitted)
    /\ rawWrites' = rawWrites + Len(fx.written)
    /\ \E recovered \in BOOLEAN :
          alive' = (fx.result = "returned" \/ (fx.result = "panic" /\ recovered))
    /\ UNCHANGED <<env, Context, Zap>>

Fatal ==
    \E msg \in MsgSet, keysAndValues \in ArgsSet :
        Complete("Fatal", msg, keysAndValues, <<>>, NoExtras,
                 Log(FatalLevel, msg, keysAndValues, Context, env))

Error ==
    \E msg \in MsgSet, keysAndValues \in ArgsSet :
        Complete("Error", msg, keysAndValues, <<>>, NoExtras,
                 Log(ErrorLevel, msg, keysAndValues, Context, env))

Warn ==
    \E msg \in MsgSet, keysAndValues \in ArgsSet :
        Complete("Warn", msg, keysAndValues, <<>>, NoExtras,
                 Log(WarnLevel, msg, keysAndValues, Context, env))

Info ==
    \E msg \in MsgSet, keysAndValues \in ArgsSet :
        Complete("Info", msg, keysAndValues, <<>>, NoExtras,
                 Log(InfoLevel, msg, keysAndValues, Context, env))

Debug ==
    \E msg \in MsgSet, keysAndValues \in ArgsSet :
        Complete("Debug", msg, keysAndValues, <<>>, NoExtras,
                 Log(DebugLevel, msg, keysAndValues, Context, env))

InfoJSON ==
    \E msg \in MsgSet, jbs \in JbsSet, keys \in ExtrasSet :
        Complete("InfoJSON", msg, <<>>, jbs, keys,
                 InfoJSONBody(msg, jbs, keys, Context, env))

\* The process configuration changes between two calls.
Setenv ==
    /\ alive
    /\ \E g \in GoDebugValues, s \in ServiceValues :
          /\ env' = [env EXCEPT !["GO_DEBUG"] = g, !["SERVICE_NAME"] = s]
          /\ env' # env
    /\ UNCHANGED <<Context, Zap, zapCalls, rawWrites, alive, call>>

Next == Fatal \/ Error \/ Warn \/ Info \/ Debug \/ InfoJSON \/ Setenv

Spec == Init /\ [][Next]_vars

(***************************************************************************)
(* Properties.                                                             *)
(***************************************************************************)
SeverityMethods == {"Fatal", "Error", "Warn", "Info", "Debug"}

LevelOf(method) ==
    CASE method = "Fatal" -> FatalLevel
      [] method = "Error" -> ErrorLevel
      [] method = "Warn" -> WarnLevel
      [] method = "Debug" -> DebugLevel
      [] OTHER -> InfoLevel

InTrace(step) == \E i \in 1..Len(call.trace) : call.trace[i] = step
WithKey(fields, k) == SelectSeq(fields, LAMBDA f : f.Key = k)
BypassAtCall == call.goDebug.set
ServiceAtCall == IF call.service.set THEN <<ZapString(KeyService, call.service.v)>> ELSE <<>>
EnvAtCall == [GO_DEBUG |-> call.goDebug, SERVICE_NAME |-> call.service]
ValidPtr(t) == Context.type = t /\ Context.ptr = "valid"

\* C1: a call of Fatal, Error, Warn, Info or Debug made while GO_DEBUG is set
\* hands nothing to the engine, returns (Fatal does not end the process) and
\* writes the raw channel exactly once, the text being Sprintf(msg, args).
C1_BypassSkipsEngine ==
    (call.method \in SeverityMethods /\ BypassAtCall) =>
        /\ call.emitted = <<>>
        /\ ~InTrace("Zap")
        /\ call.result = "returned"
        /\ alive
        /\ call.written = <<Sprintf(call.msg, call.args)>>

C1_Witness ==
    /\ call.method = "Fatal"
    /\ BypassAtCall
    /\ call.args = <<>>
    /\ call.written = <<"value %!d(MISSING)%">>
    /\ rawWrites = 1
    /\ zapCalls = 0

\* C2: InfoJSON called while GO_DEBUG is set writes the unformatted message to
\* the raw channel exactly once and returns without an engine call, without
\* running logFromContext and without reading SERVICE_NAME.
C2_InfoJSONBypassFirst ==
    (call.method = "InfoJSON" /\ BypassAtCall) =>
        /\ call.written = <<Concat(call.msg)>>
        /\ call.emitted = <<>>
        /\ ~InTrace("logFromContext")
        /\ ~InTrace("LookupEnv SERVICE_NAME")

\* C3: for a gin context the record of a severity call carries exactly one
\* x-request-id field, equal to the request_id string, when that string is not
\* empty and none when it is empty, and a service field iff SERVICE_NAME is set
\* at the call.
C3_GinFields ==
    (call.method \in SeverityMethods /\ ~BypassAtCall /\ ValidPtr("*gin.Context")) =>
        /\ Len(call.emitted) = 1
        /\ LET f == call.emitted[1].fields
               id == GetString(Context)
           IN  /\ f = (IF id # "" THEN <<ZapString(KeyXRequestID, id)>> ELSE <<>>)
                        \o ServiceAtCall
               /\ Len(WithKey(f, KeyXRequestID)) = (IF id # "" THEN 1 ELSE 0)
               /\ Len(WithKey(f, KeyService)) = (IF call.service.set THEN 1 ELSE 0)

C3_Witness ==
    /\ call.method = "Warn"
    /\ ValidPtr("*gin.Context")
    /\ call.emitted # <<>>
    /\ call.emitted[1].fields =
         <<ZapString(KeyXRequestID, "r1"), ZapString(KeyService, "svc")>>

\* C4: for a fasthttp context logFromContext returns without raising; the
\* returned fields are x-request-id iff the store holds a string under
\* request_id (the empty string included), then service iff SERVICE_NAME is
\* set at the call, and nothing else: the early return keeps the fields of
\* its branch and no other rule adds to them.
C4_FastHTTPFields ==
    (call.method \in SeverityMethods /\ ~BypassAtCall /\ ValidPtr("*fasthttp.RequestCtx")) =>
        /\ call.result # "panic"
        /\ Len(call.emitted) = 1
        /\ LET f == call.emitted[1].fields
               e == Context.request_id
           IN  /\ f = (IF e.type = "string" THEN <<ZapString(KeyXRequestID, e.v)>> ELSE <<>>)
                        \o ServiceAtCall
               /\ (e.type # "string" => WithKey(f, KeyXRequestID) = <<>>)
               /\ Len(WithKey(f, KeyService)) = (IF call.service.set THEN 1 ELSE 0)

C4_Witness ==
    /\ call.method = "Error"
    /\ ValidPtr("*fasthttp.RequestCtx")
    /\ Context.request_id = Absent
    /\ call.result = "returned"
    /\ call.emitted # <<>>
    /\ call.emitted[1].fields = <<ZapString(KeyService, "svc")>>

\* C5: for a context of no recognised type, and for a nil context (a nil
\* pointer of a recognised type included), a severity call does not raise and
\* its record carries no fields, whether or not SERVICE_NAME is set.
C5_NoShapeNoFields ==
    (/\ call.method \in SeverityMethods
     /\ ~BypassAtCall
     /\ (Context.type \in {"nil", "string"} \/ Context.ptr = "nil")) =>
        /\ call.result # "panic"
        /\ Len(call.emitted) = 1
        /\ call.emitted[1].fields = <<>>

\* C6: InfoJSON with GO_DEBUG unset and a valid fragment makes exactly one
\* engine call, at info level, with text msg + " " + fragment and with the
\* context fields followed by the extras field iff Key and Value are not
\* empty; Filter changes nothing.
C6_InfoJSONValid ==
    (call.method = "InfoJSON" /\ ~BypassAtCall /\ JSONValid(call.jbs)) =>
        /\ Len(call.emitted) = 1
        /\ call.written = <<>>
        /\ call.emitted[1].level = InfoLevel
        /\ call.emitted[1].msg = Concat(call.msg) \o " " \o Concat(call.jbs)
        /\ call.emitted[1].fields =
             logFromContext(Context, EnvAtCall).fields
               \o (IF call.keys.Key # "" /\ call.keys.Value # NilMap
                   THEN <<ZapAny(call.keys.Key, call.keys.Value)>> ELSE <<>>)

\* C7: InfoJSON with GO_DEBUG unset and a malformed fragment makes exactly one
\* engine call, at info level, with the message alone and the context fields
\* alone, and nothing is raised.
C7_InfoJSONInvalid ==
    (call.method = "InfoJSON" /\ ~BypassAtCall /\ ~JSONValid(call.jbs)) =>
        /\ call.result = "returned"
        /\ Len(call.emitted) = 1
        /\ call.written = <<>>
        /\ call.emitted[1].level = InfoLevel
        /\ call.emitted[1].msg = Concat(call.msg)
        /\ call.emitted[1].fields = logFromContext(Context, EnvAtCall).fields

\* C8: with GO_DEBUG unset every call of a severity method makes exactly one
\* engine call and no raw write, at the method's level, with the fields of
\* logFromContext and with the message verbatim when there are no arguments and
\* Sprintf(msg, args) otherwise; it never raises.
C8_OneEngineCall ==
    (call.method \in SeverityMethods /\ ~BypassAtCall) =>
        /\ call.result # "panic"
        /\ Len(call.emitted) = 1
        /\ call.written = <<>>
        /\ call.emitted[1].level = LevelOf(call.method)
        /\ call.emitted[1].fields = logFromContext(Context, EnvAtCall).fields
        /\ call.emitted[1].msg =
             (IF call.args = <<>> THEN Concat(call.msg) ELSE Sprintf(call.msg, call.args))

\* C9: what a call does follows the environment as it is at that call: a raw
\* write happens only, and for a call that returns always, when GO_DEBUG is
\* set then; an engine record only when it is unset then; a service field
\* carries the value SERVICE_NAME has then and, for a context of a recognised
\* type, is present iff it is set then.  No step changes Context or Zap.
C9_State ==
    call.method # "none" =>
        /\ (call.written # <<>> => BypassAtCall)
        /\ (call.emitted # <<>> => ~BypassAtCall)
        /\ (call.result = "returned" => (call.written # <<>> <=> BypassAtCall))
        /\ \A i \in 1..Len(call.emitted) :
              LET svc == WithKey(call.emitted[i].fields, KeyService)
              IN  /\ \A j \in 1..Len(svc) : call.service.set /\ svc[j].String = call.service.v
                  /\ (Context.type \notin {"nil", "string"} => (svc # <<>> <=> call.service.set))

\* C9, over whole behaviours: C9_State always holds and every step, a logging
\* call or a change of the environment, leaves Context and Zap as they were.
C9_NoCaching == [](C9_State) /\ [][Context' = Context /\ Zap' = Zap]_vars

C9_Witness ==
    /\ zapCalls = 1
    /\ rawWrites = 1
    /\ call.method = "Info"
    /\ call.written # <<>>
    /\ ~env["GO_DEBUG"].set

\* C10: every record handed to the engine carries at most one service field
\* and at most one x-request-id field, x-request-id first when both are there.
C10_AtMostOnce ==
    \A i \in 1..Len(call.emitted) :
        LET f == call.emitted[i].fields
        IN  /\ Len(WithKey(f, KeyService)) <= 1
            /\ Len(WithKey(f, KeyXRequestID)) <= 1
            /\ \A a, b \in 1..Len(f) :
                  (f[a].Key = KeyXRequestID /\ f[b].Key = KeyService) => a < b

C10_Witness ==
    /\ call.method = "InfoJSON"
    /\ call.emitted # <<>>
    /\ Len(call.emitted[1].fields) = 3
    /\ call.emitted[1].fields[1].Key = KeyXRequestID
    /\ call.emitted[1].fields[2].Key = KeyService

=============================================================================
